---- MODULE Spec2Model ----
(***************************************************************************)
(* The template lifecycle manager (Ironman) over its Source Manager, Model *)
(* Reader and Index, and the conflict policy of Generate.                  *)
(*                                                                         *)
(* Every operation is synchronous and single-threaded, so each is one      *)
(* atomic action.  A collaborator call that can fail for reasons outside   *)
(* the modelled state (transport, I/O) takes a boolean "fault" input.      *)
(***************************************************************************)
EXTENDS Naturals, Sequences, FiniteSets, TLC

VARIABLES
    index,  \* the Index: template ID -> stored Template (NoT when absent)
    fs,     \* the templates directory: name -> entry (none, dir, link);
            \* what a fetched directory holds is not kept: whoever reads
            \* it is given what its files say at that moment
    paths,  \* local paths outside the home that Link can point to
    tgt,    \* the generation target and its surroundings
    res     \* the outcome of the last operation

vars == <<index, fs, paths, tgt, res>>

---------------------------------------------------------------------------
(* Bounds and value sets *)

\* number of validators registered at construction
NumValidators == 2

OK == "ok"

IDs == {"a", "b"}

\* names under templates/: directory names and link IDs share the namespace
Names == IDs

EmptyID == ""

\* filepath.Join(path, "templates", "."): the templates directory itself
RootName == "."

\* the templates directory and the names under it
FsNames == Names \cup {RootName}

Paths == {"p"}

GenIDs == {"f", "d"}

GensA == [f |-> "File", d |-> "Directory"]

GensB == [f |-> "none", d |-> "File"]

NoGens == [f |-> "none", d |-> "none"]

\* what a template's declaration files say: the declared ID and source
\* type, whether the files decode, and the generators
NoMeta == [mid |-> "", good |-> FALSE, st |-> "", gens |-> NoGens]

MetaA == [mid |-> "a", good |-> TRUE, st |-> "URL", gens |-> GensA]

MetaB == [mid |-> "b", good |-> TRUE, st |-> "Link", gens |-> GensB]

MetaBad == [mid |-> "a", good |-> FALSE, st |-> "", gens |-> NoGens]

Contents == {MetaA, MetaB, MetaBad}

\* a locator: path segments, the last one split into stem and suffix;
\* "host/a.git" and "host/b"
Locators ==
    { [segs |-> <<"host", "a">>, ext |-> ".git"],
      [segs |-> <<"host", "b">>, ext |-> ""] }

\* ".git": a locator that names the repository of the working directory
RootLocators == {[segs |-> << >>, ext |-> ".git"]}

NoT == [ID |-> "", DirectoryName |-> "", SourceType |-> "", gens |-> NoGens]

NoEntry == [kind |-> "none", to |-> ""]

DirEntry == [kind |-> "dir", to |-> ""]

\* nothing under templates/
EmptyHome == [n \in FsNames |-> IF n = RootName THEN DirEntry ELSE NoEntry]

NoPath == [exists |-> FALSE, meta |-> NoMeta]

VOutcomes == {"valid", "invalid", "error"}

\* the outcomes of the Validate calls one Install makes, in registration
\* order: the loop stops at the first validator that does not answer "valid"
ValidatorRuns ==
    { [k \in 1..n |-> IF k < n THEN "valid" ELSE last] :
        n \in 1..NumValidators, last \in VOutcomes \ {"valid"} }
    \cup { [k \in 1..NumValidators |-> "valid"] }

---------------------------------------------------------------------------
(* Source Manager *)

validateTemplateID(templateID) == IF templateID = EmptyID THEN "InvalidID" ELSE OK

\* os.Stat follows symbolic links: a link whose target is gone does not exist
StatExists(fsv, pv, n) ==
    \/ fsv[n].kind = "dir"
    \/ fsv[n].kind = "link" /\ pv[fsv[n].to].exists

\* path.Base(strings.TrimSuffix(location, ".git"))
\* path.Base of the empty string is "."
templatePathFromLocation(loc) ==
    LET trimmed == IF loc.ext = ".git" THEN [loc EXCEPT !.ext = ""] ELSE loc
    IN  IF Len(trimmed.segs) = 0 THEN RootName ELSE trimmed.segs[Len(trimmed.segs)]

\* git clone into the template path, with no check of the path before:
\* Clone refuses a path that holds a fetched repository or a link, and goes
\* ahead in the templates directory itself, which holds none
MgrInstall(fsv, loc, fault) ==
    LET dir == templatePathFromLocation(loc)
    IN  IF fault \/ (dir # RootName /\ fsv[dir].kind # "none")
        THEN [fs |-> fsv, dir |-> dir, err |-> "FetchFailed"]
        ELSE [fs |-> [fsv EXCEPT ![RootName] = DirEntry, ![dir] = DirEntry],
              dir |-> dir, err |-> OK]

\* git pull in the template path; "already up to date" is success.
\* Through a link the pull rewrites the linked path.
MgrUpdate(fsv, pv, n, content, fault) ==
    IF fault \/ n \notin Names \/ ~StatExists(fsv, pv, n)
    THEN [fs |-> fsv, paths |-> pv, err |-> "FetchFailed"]
    ELSE IF fsv[n].kind = "dir"
         THEN [fs |-> fsv, paths |-> pv, err |-> OK]
         ELSE [fs |-> fsv, paths |-> [pv EXCEPT ![fsv[n].to].meta = content], err |-> OK]

\* os.RemoveAll: a missing path is no error; a link is removed, not followed
MgrUninstall(fsv, pv, n, fault) ==
    IF validateTemplateID(n) # OK THEN [fs |-> fsv, paths |-> pv, err |-> "InvalidID"]
    ELSE IF fault THEN [fs |-> fsv, paths |-> pv, err |-> "IOFailure"]
    ELSE IF n = RootName
    THEN [fs |-> [m \in FsNames |-> NoEntry], paths |-> pv, err |-> OK]
    ELSE [fs |-> [fsv EXCEPT ![n] = NoEntry], paths |-> pv, err |-> OK]

\* os.Stat(templatePath), filepath.Abs, os.Symlink
MgrLink(fsv, pv, p, n, fault) ==
    IF validateTemplateID(n) # OK THEN [fs |-> fsv, err |-> "InvalidID"]
    ELSE IF ~pv[p].exists THEN [fs |-> fsv, err |-> "NotFound"]
    ELSE IF fsv[n].kind # "none" THEN [fs |-> fsv, err |-> "Conflict"]
    ELSE IF fault \/ (n # RootName /\ fsv[RootName].kind = "none")
    THEN [fs |-> fsv, err |-> "IOFailure"]
    ELSE [fs |-> [fsv EXCEPT ![n] = [kind |-> "link", to |-> p]], err |-> OK]

\* a removal that follows the link and removes what it points to as well
MgrUnlinkFollowing(fsv, pv, n, fault) ==
    IF validateTemplateID(n) # OK THEN [fs |-> fsv, paths |-> pv, err |-> "InvalidID"]
    ELSE IF ~StatExists(fsv, pv, n) THEN [fs |-> fsv, paths |-> pv, err |-> "NotFound"]
    ELSE IF fault \/ fsv[n].kind = "dir" THEN [fs |-> fsv, paths |-> pv, err |-> "IOFailure"]
    ELSE [fs |-> [fsv EXCEPT ![n] = NoEntry],
          paths |-> [pv EXCEPT ![fsv[n].to] = NoPath], err |-> OK]

\* a fetched directory is never empty; the templates directory is when
\* nothing is under it
NonEmptyDir(fsv, n) ==
    /\ fsv[n].kind = "dir"
    /\ n = RootName => \E m \in Names : fsv[m].kind # "none"

\* os.Stat, then os.Remove (which refuses a non-empty directory)
MgrUnlink(fsv, pv, n, fault) ==
    IF validateTemplateID(n) # OK THEN [fs |-> fsv, paths |-> pv, err |-> "InvalidID"]
    ELSE IF ~StatExists(fsv, pv, n) THEN [fs |-> fsv, paths |-> pv, err |-> "NotFound"]
    ELSE IF fault \/ NonEmptyDir(fsv, n) THEN [fs |-> fsv, paths |-> pv, err |-> "IOFailure"]
    ELSE [fs |-> [fsv EXCEPT ![n] = NoEntry], paths |-> pv, err |-> OK]

\* os.Stat(templatePath): a missing path is "not installed", no error
MgrIsInstalled(fsv, pv, n) ==
    IF validateTemplateID(n) # OK THEN [installed |-> FALSE, err |-> "InvalidID"]
    ELSE [installed |-> StatExists(fsv, pv, n), err |-> OK]

---------------------------------------------------------------------------
(* Model Reader *)

\* reads the declaration files under TemplateLocation(n); content is what
\* the files of a fetched directory say
Read(fsv, pv, n, content) ==
    LET e == fsv[n]
        src == IF e.kind = "dir" THEN content
               ELSE IF e.kind = "link" /\ pv[e.to].exists THEN pv[e.to].meta
               ELSE NoMeta
    IN  IF src.good
        THEN [err |-> OK,
              t |-> [ID |-> src.mid, DirectoryName |-> n,
                     SourceType |-> src.st, gens |-> src.gens]]
        ELSE [err |-> "ReadFailed", t |-> NoT]

---------------------------------------------------------------------------
(* Index *)

IdxExists(ix, id) == id \in IDs /\ ix[id].ID # ""

IdxIndex(ix, t, fault) ==
    IF IdxExists(ix, t.ID) THEN [index |-> ix, err |-> "Conflict"]
    ELSE IF fault \/ t.ID \notin IDs THEN [index |-> ix, err |-> "IndexFailure"]
    ELSE [index |-> [ix EXCEPT ![t.ID] = t], err |-> OK]

IdxUpdate(ix, t, fault) ==
    IF ~IdxExists(ix, t.ID) THEN [index |-> ix, err |-> "NotFound"]
    ELSE IF fault THEN [index |-> ix, err |-> "IndexFailure"]
    ELSE [index |-> [ix EXCEPT ![t.ID] = t], err |-> OK]

IdxDelete(ix, id, fault) ==
    IF ~IdxExists(ix, id) THEN [index |-> ix, err |-> "NotFound"]
    ELSE IF fault THEN [index |-> ix, err |-> "IndexFailure"]
    ELSE [index |-> [ix EXCEPT ![id] = NoT], err |-> OK]

---------------------------------------------------------------------------
(* Lifecycle Orchestrator *)

\* the outcome of one operation: the state it leaves, the error it
\* returns and the collaborator calls it made, in order
Out(ix, fsv, pv, err, calls) ==
    [index |-> ix, fs |-> fsv, paths |-> pv, err |-> err, calls |-> calls,
     secondary |-> ""]

\* _ = i.manager.Uninstall(...) / _ = i.manager.Unlink(...); return err:
\* the error of the compensation is dropped, the primary one is returned
Compensated(o, compErr) == o

FirstBadIgnored(vout) == 0

\* the loop over i.validators: the position of the first validator that
\* does not report the template valid, 0 when all do
FirstBad(vout) ==
    IF \A k \in DOMAIN vout : vout[k] = "valid" THEN 0
    ELSE CHOOSE k \in DOMAIN vout :
            /\ vout[k] # "valid"
            /\ \A j \in 1..(k - 1) : vout[j] = "valid"

ValidatorCalls(n) == [k \in 1..n |-> <<"validate", k>>]

ValidationError(outcome) ==
    IF outcome = "error" THEN "ValidatorError" ELSE "ValidationFailed"

\* what Install does with the materialized directory when a validator
\* errors or rejects the template: it returns, the directory stays
InstallValidationExit(fsv, pv, dir, fault) ==
    [fs |-> fsv, paths |-> pv, err |-> "", ran |-> FALSE]

\* rollback manager installation; the rollback's own error is dropped
InstallRollback(fsv, pv, dir, fault) ==
    LET un == MgrUninstall(fsv, pv, dir, fault)
    IN  [fs |-> un.fs, paths |-> un.paths, err |-> un.err, ran |-> TRUE]

InstallSourceTypeFromMetadata == "Link"

\* templateModel.SourceType = model.SourceTypeURL
InstallSourceType == "URL"

IronmanInstall(ix, fsv, pv, loc, content, mf, vout, uf, xf) ==
    LET m     == MgrInstall(fsv, loc, mf)
        dir   == m.dir
        c1    == << <<"mgr.Install", dir>> >>
        rd    == Read(m.fs, pv, dir, content)
        c2    == Append(c1, <<"reader.Read", dir>>)
        undo  == InstallRollback(m.fs, pv, dir, uf)
        bad   == FirstBad(vout)
        vexit == InstallValidationExit(m.fs, pv, dir, uf)
        c3    == c2 \o ValidatorCalls(IF bad = 0 THEN NumValidators ELSE bad)
        t     == [rd.t EXCEPT !.SourceType = InstallSourceType]
        ins   == IdxIndex(ix, t, xf)
        c4    == Append(c3, <<"idx.Index", t.ID>>)
    IN  IF m.err # OK THEN Out(ix, m.fs, pv, m.err, c1)
        ELSE IF rd.err # OK
        THEN Compensated(Out(ix, undo.fs, undo.paths, rd.err,
                             Append(c2, <<"mgr.Uninstall", dir>>)), undo.err)
        ELSE IF bad # 0
        THEN Out(ix, vexit.fs, vexit.paths, ValidationError(vout[bad]),
                 IF vexit.ran THEN Append(c3, <<"mgr.Uninstall", dir>>) ELSE c3)
        ELSE IF ins.err # OK
        THEN Compensated(Out(ix, undo.fs, undo.paths, ins.err,
                             Append(c4, <<"mgr.Uninstall", dir>>)), undo.err)
        ELSE Out(ins.index, m.fs, pv, OK, c4)

LinkSourceType == "Link"

LinkIDFromMetadata(declared, id) == declared

\* templateModel.ID = templateID
LinkID(declared, id) == id

IronmanLink(ix, fsv, pv, p, id, lf, uf, xf) ==
    LET l    == MgrLink(fsv, pv, p, id, lf)
        c1   == << <<"mgr.Link", id>> >>
        rd   == Read(l.fs, pv, id, NoMeta)
        c2   == Append(c1, <<"reader.Read", id>>)
        undo == MgrUnlink(l.fs, pv, id, uf)
        t    == [rd.t EXCEPT !.ID = LinkID(rd.t.ID, id), !.SourceType = LinkSourceType]
        ins  == IdxIndex(ix, t, xf)
        c3   == Append(c2, <<"idx.Index", t.ID>>)
    IN  IF l.err # OK THEN Out(ix, l.fs, pv, l.err, c1)
        ELSE IF rd.err # OK
        THEN Compensated(Out(ix, undo.fs, undo.paths, rd.err,
                             Append(c2, <<"mgr.Unlink", id>>)), undo.err)
        ELSE IF ins.err # OK
        THEN Compensated(Out(ix, undo.fs, undo.paths, ins.err,
                             Append(c3, <<"mgr.Unlink", id>>)), undo.err)
        ELSE Out(ins.index, l.fs, pv, OK, c3)

AssumeIndexed(ix, id) == OK

\* exists, err := i.index.Exists(templateID); if !exists { return error }
RequireIndexed(ix, id) == IF IdxExists(ix, id) THEN OK ELSE "NotFound"

DeleteEntryForgotten(ix, id, fault) == [index |-> ix, err |-> OK]

\* _, err = i.index.Delete(templateID)
DeleteEntry(ix, id, fault) == IdxDelete(ix, id, fault)

\* an Uninstall that deletes the Index entry first and removes the directory after
IronmanUninstallIndexFirst(ix, fsv, pv, id, uf, xf) ==
    LET c2  == << <<"idx.Exists", id>>, <<"idx.FindTemplateByID", id>> >>
        dir == ix[id].DirectoryName
        del == IdxDelete(ix, id, xf)
        c3  == Append(c2, <<"idx.Delete", id>>)
        un  == MgrUninstall(fsv, pv, dir, uf)
        c4  == Append(c3, <<"mgr.Uninstall", dir>>)
    IN  IF ~IdxExists(ix, id) THEN Out(ix, fsv, pv, "NotFound", << <<"idx.Exists", id>> >>)
        ELSE IF del.err # OK THEN Out(ix, fsv, pv, del.err, c3)
        ELSE Out(del.index, un.fs, un.paths, un.err, c4)

IronmanUninstall(ix, fsv, pv, id, uf, xf) ==
    LET c1    == << <<"idx.Exists", id>> >>
        model == ix[id]
        c2    == Append(c1, <<"idx.FindTemplateByID", id>>)
        dir   == model.DirectoryName
        un    == MgrUninstall(fsv, pv, dir, uf)
        c3    == Append(c2, <<"mgr.Uninstall", dir>>)
        del   == DeleteEntry(ix, id, xf)
        c4    == Append(c3, <<"idx.Delete", id>>)
    IN  IF RequireIndexed(ix, id) # OK THEN Out(ix, fsv, pv, "NotFound", c1)
        ELSE IF un.err # OK THEN Out(ix, un.fs, un.paths, un.err, c3)
        ELSE Out(del.index, un.fs, un.paths, del.err, c4)

IronmanUnlink(ix, fsv, pv, id, uf, xf) ==
    LET un  == MgrUnlink(fsv, pv, id, uf)
        c1  == << <<"mgr.Unlink", id>> >>
        del == DeleteEntry(ix, id, xf)
        c2  == Append(c1, <<"idx.Delete", id>>)
    IN  IF un.err # OK THEN Out(ix, un.fs, un.paths, un.err, c1)
        ELSE Out(del.index, un.fs, un.paths, del.err, c2)

\* an Update that re-reads the model and writes it to the Index
IronmanUpdateReindexing(ix, fsv, pv, id, content, uf) ==
    LET c1    == << <<"idx.Exists", id>> >>
        model == ix[id]
        up    == MgrUpdate(fsv, pv, model.DirectoryName, content, uf)
        c3    == Append(Append(c1, <<"idx.FindTemplateByID", id>>),
                        <<"mgr.Update", model.DirectoryName>>)
        rd    == Read(up.fs, up.paths, model.DirectoryName, content)
        t     == [rd.t EXCEPT !.ID = id, !.SourceType = model.SourceType]
    IN  IF ~IdxExists(ix, id) THEN Out(ix, fsv, pv, "NotFound", c1)
        ELSE IF up.err # OK \/ rd.err # OK THEN Out(ix, up.fs, up.paths, up.err, c3)
        ELSE Out([ix EXCEPT ![id] = t], up.fs, up.paths, OK, c3)

IronmanUpdate(ix, fsv, pv, id, content, uf) ==
    LET c1    == << <<"idx.Exists", id>> >>
        model == ix[id]
        c2    == Append(c1, <<"idx.FindTemplateByID", id>>)
        up    == MgrUpdate(fsv, pv, model.DirectoryName, content, uf)
        c3    == Append(c2, <<"mgr.Update", model.DirectoryName>>)
    IN  IF RequireIndexed(ix, id) # OK THEN Out(ix, fsv, pv, "NotFound", c1)
        ELSE Out(ix, up.fs, up.paths, up.err, c3)

---------------------------------------------------------------------------
(* Generate: the target and the conflict policy *)

\* the generation path T: the state of its parent directory, of T itself,
\* and of the effective output file of a File generator,
\* parent / FileGenerationRelativePath / base(T), which lies under parent
TgtStates ==
    { t \in [parent : {"missing", "ro", "rw"},
             kind   : {"absent", "file", "empty", "full"},
             out    : BOOLEAN] :
        t.parent = "missing" => (t.kind = "absent" /\ ~t.out) }

\* os.Stat(baseDir)
ParentExists(tg) == tg.parent # "missing"

\* os.Stat(filePath)
OutputExists(tg) == tg.out

\* os.Mkdir(absGenerationPath, os.ModePerm): the error it returns
Mkdir(tg) ==
    IF tg.parent = "missing" THEN "ENOENT"
    ELSE IF tg.kind # "absent" THEN "EEXIST"
    ELSE IF tg.parent = "ro" THEN "EACCES"
    ELSE OK

AfterMkdir(tg) == IF Mkdir(tg) = OK THEN [tg EXCEPT !.kind = "empty"] ELSE tg

\* isDirEmpty: os.Open, then Readdirnames(1); io.EOF means empty
isDirEmpty(tg) ==
    IF tg.kind = "absent" THEN [empty |-> FALSE, err |-> "ENOENT"]
    ELSE IF tg.kind = "file" THEN [empty |-> FALSE, err |-> "ENOTDIR"]
    ELSE IF tg.kind = "empty" THEN [empty |-> TRUE, err |-> OK]
    ELSE [empty |-> FALSE, err |-> OK]

FileCheckWithoutParent(tg, force) ==
    IF OutputExists(tg) /\ ~force THEN "FileExists" ELSE OK

FileCheckWithoutForce(tg, force) ==
    IF ~ParentExists(tg) THEN "InvalidTarget"
    ELSE IF OutputExists(tg) THEN "FileExists"
    ELSE OK

\* the File branch: the parent must exist; an existing output file is a
\* conflict unless force
FileCheck(tg, force) ==
    IF ~ParentExists(tg) THEN "InvalidTarget"
    ELSE IF OutputExists(tg) /\ ~force THEN "FileExists"
    ELSE OK

DirectoryCheckWhenForced(tg, mk, force) ==
    IF mk = "EACCES" THEN "PermissionDenied"
    ELSE IF mk = "EEXIST" /\ force
    THEN LET e == isDirEmpty(tg)
         IN  IF e.err # OK THEN "IOFailure"
             ELSE IF ~e.empty THEN "NotEmpty"
             ELSE OK
    ELSE OK

\* the Directory branch, after os.Mkdir returned mk
DirectoryCheck(tg, mk, force) ==
    IF mk = "EACCES" THEN "PermissionDenied"
    ELSE IF mk = "EEXIST" /\ ~force
    THEN LET e == isDirEmpty(tg)
         IN  IF e.err # OK THEN "IOFailure"
             ELSE IF ~e.empty THEN "NotEmpty"
             ELSE OK
    ELSE OK

EngineOutcomes == {"done", "failedClean", "failedPartial"}

\* the generation engine: walks the generator's tree and writes under the
\* target; a failure leaves whatever was written so far
Render(tg, gtype, eo) ==
    IF gtype = "File"
    THEN IF eo = "done" /\ tg.parent = "rw"
         THEN [tgt |-> [tg EXCEPT !.out = TRUE], err |-> OK]
         ELSE [tgt |-> tg, err |-> "RenderFailed"]
    ELSE IF tg.kind \in {"empty", "full"}
         THEN IF eo = "done" THEN [tgt |-> [tg EXCEPT !.kind = "full"], err |-> OK]
              ELSE IF eo = "failedPartial"
              THEN [tgt |-> [tg EXCEPT !.kind = "full"], err |-> "RenderFailed"]
              ELSE [tgt |-> tg, err |-> "RenderFailed"]
         ELSE [tgt |-> tg, err |-> "RenderFailed"]

\* templateModel.Generator(generatorID): "none" stands for nil
Generator(t, gid) == IF gid \in GenIDs THEN t.gens[gid] ELSE "none"

\* a refresh that stores the model as the metadata declares it
RefreshLinkedAsDeclared(ix, fsv, pv, id, content, xf) ==
    LET stored == ix[id]
        rd     == Read(fsv, pv, stored.DirectoryName, content)
        up     == IdxUpdate(ix, rd.t, xf)
    IN  IF stored.SourceType # LinkSourceType
        THEN [index |-> ix, t |-> stored, err |-> OK, calls |-> << >>]
        ELSE IF rd.err # OK
        THEN [index |-> ix, t |-> stored, err |-> rd.err,
              calls |-> << <<"reader.Read", stored.DirectoryName>> >>]
        ELSE [index |-> up.index, t |-> rd.t, err |-> up.err,
              calls |-> << <<"reader.Read", stored.DirectoryName>>, <<"idx.Update", id>> >>]

\* the lazy metadata refresh of a linked template
RefreshLinked(ix, fsv, pv, id, content, xf) ==
    LET stored == ix[id]
        rd     == Read(fsv, pv, stored.DirectoryName, content)
        t      == [rd.t EXCEPT !.ID = id, !.SourceType = LinkSourceType]
        up     == IdxUpdate(ix, t, xf)
    IN  IF stored.SourceType # LinkSourceType
        THEN [index |-> ix, t |-> stored, err |-> OK, calls |-> << >>]
        ELSE IF rd.err # OK
        THEN [index |-> ix, t |-> stored, err |-> rd.err,
              calls |-> << <<"reader.Read", stored.DirectoryName>> >>]
        ELSE [index |-> up.index, t |-> t, err |-> up.err,
              calls |-> << <<"reader.Read", stored.DirectoryName>>, <<"idx.Update", id>> >>]

GenOut(ix, tg, err, calls, gtype, rendered) ==
    [index |-> ix, tgt |-> tg, err |-> err, calls |-> calls,
     gtype |-> gtype, rendered |-> rendered]

IronmanGenerate(ix, fsv, pv, tg, id, gid, force, content, xf, eo) ==
    LET c1    == << <<"idx.Exists", id>> >>
        c2    == Append(c1, <<"idx.FindTemplateByID", id>>)
        rf    == RefreshLinked(ix, fsv, pv, id, content, xf)
        c3    == c2 \o rf.calls
        gtype == Generator(rf.t, gid)
        mk    == Mkdir(tg)
        tg1   == IF gtype = "Directory" THEN AfterMkdir(tg) ELSE tg
        chk   == IF gtype = "File" THEN FileCheck(tg, force)
                 ELSE DirectoryCheck(tg, mk, force)
        rn    == Render(tg1, gtype, eo)
        c4    == Append(c3, <<"generator.Generate", gid>>)
    IN  IF RequireIndexed(ix, id) # OK
        THEN GenOut(ix, tg, "NotFound", c1, "none", FALSE)
        ELSE IF rf.err # OK THEN GenOut(rf.index, tg, rf.err, c3, "none", FALSE)
        ELSE IF gtype = "none"
        THEN GenOut(rf.index, tg, "NoGenerator", c3, "none", FALSE)
        ELSE IF chk # OK THEN GenOut(rf.index, tg1, chk, c3, gtype, FALSE)
        ELSE GenOut(rf.index, rn.tgt, rn.err, c4, gtype, TRUE)

---------------------------------------------------------------------------
(* The state machine *)

\* the last operation: its name, the error it returned, the ID under which
\* it indexed a template (Install, Link) or the ID it was given (Unlink),
\* and whether it came right after a successful Link of that same ID
Result(op, err, id, afterLink) ==
    [op |-> op, err |-> err, id |-> id, afterLink |-> afterLink]

JustLinked(id) == res.op = "Link" /\ res.err = OK /\ res.id = id

\* a generation path that has been generated into before
PopulatedTarget == [parent |-> "rw", kind |-> "full", out |-> TRUE]

Init ==
    /\ index = [id \in IDs |-> NoT]
    /\ fs = EmptyHome
    /\ paths = [p \in Paths |-> NoPath]
    /\ tgt = PopulatedTarget
    /\ res = Result("New", OK, "", FALSE)

\* what the collaborators of one Install do: whether the fetch fails, what
\* the validators answer, whether the Index insert and the rollback fail.
\* A choice that no branch reads is fixed, so each behaviour occurs once.
InstallEnvs ==
    { e \in [fetchFails : BOOLEAN, vout : ValidatorRuns,
             indexFails : BOOLEAN, undoFails : BOOLEAN] :
        /\ e.fetchFails => FirstBad(e.vout) = 0
        /\ (e.fetchFails \/ FirstBad(e.vout) # 0) => (~e.indexFails /\ ~e.undoFails) }

LinkEnvs ==
    { e \in [linkFails : BOOLEAN, indexFails : BOOLEAN, undoFails : BOOLEAN] :
        e.linkFails => (~e.indexFails /\ ~e.undoFails) }

RemoveEnvs ==
    { e \in [removeFails : BOOLEAN, deleteFails : BOOLEAN] :
        e.removeFails => ~e.deleteFails }

\* dirSays: what the files say when the refresh reads a fetched directory
GenerateEnvs ==
    { e \in [updateFails : BOOLEAN, engine : EngineOutcomes, dirSays : Contents] :
        e.updateFails => e.engine = "done" }

\* the refresh of a linked template reads a fetched directory only when the
\* stored location of a Link entry holds one
RefreshReadsDirectory(id) ==
    /\ IdxExists(index, id)
    /\ index[id].SourceType = LinkSourceType
    /\ fs[index[id].DirectoryName].kind = "dir"

Install(loc, content, e) ==
    LET o == IronmanInstall(index, fs, paths, loc, content,
                            e.fetchFails, e.vout, e.undoFails, e.indexFails)
    IN  /\ index' = o.index
        /\ fs' = o.fs
        /\ paths' = o.paths
        /\ res' = Result("Install", o.err, IF o.err = OK THEN content.mid ELSE "", FALSE)
        /\ UNCHANGED tgt

Link(p, id, e) ==
    LET o == IronmanLink(index, fs, paths, p, id,
                         e.linkFails, e.undoFails, e.indexFails)
    IN  /\ index' = o.index
        /\ fs' = o.fs
        /\ paths' = o.paths
        /\ res' = Result("Link", o.err, IF o.err = OK THEN id ELSE "", FALSE)
        /\ UNCHANGED tgt

Uninstall(id, e) ==
    LET o == IronmanUninstall(index, fs, paths, id, e.removeFails, e.deleteFails)
    IN  /\ index' = o.index
        /\ fs' = o.fs
        /\ paths' = o.paths
        /\ res' = Result("Uninstall", o.err, "", FALSE)
        /\ UNCHANGED tgt

Unlink(id, e) ==
    LET o == IronmanUnlink(index, fs, paths, id, e.removeFails, e.deleteFails)
    IN  /\ index' = o.index
        /\ fs' = o.fs
        /\ paths' = o.paths
        /\ res' = Result("Unlink", o.err, IF JustLinked(id) THEN id ELSE "", JustLinked(id))
        /\ UNCHANGED tgt

Update(id, content, fault) ==
    LET o == IronmanUpdate(index, fs, paths, id, content, fault)
    IN  /\ index' = o.index
        /\ fs' = o.fs
        /\ paths' = o.paths
        /\ res' = Result("Update", o.err, "", FALSE)
        /\ UNCHANGED tgt

Generate(id, gid, force, e) ==
    LET o == IronmanGenerate(index, fs, paths, tgt, id, gid, force,
                             e.dirSays, e.updateFails, e.engine)
    IN  /\ RefreshReadsDirectory(id) \/ e.dirSays = MetaA
        /\ index' = o.index
        /\ tgt' = o.tgt
        /\ res' = Result("Generate", o.err, "", FALSE)
        /\ UNCHANGED <<fs, paths>>

\* the user creates or edits a template at a local path
WritePath(p, content) ==
    /\ paths' = [paths EXCEPT ![p] = [exists |-> TRUE, meta |-> content]]
    /\ res' = Result("WritePath", OK, "", FALSE)
    /\ UNCHANGED <<index, fs, tgt>>

\* the user deletes a local path
RemovePath(p) ==
    /\ paths[p].exists
    /\ paths' = [paths EXCEPT ![p] = NoPath]
    /\ res' = Result("RemovePath", OK, "", FALSE)
    /\ UNCHANGED <<index, fs, tgt>>

\* the user picks another generation path
ChooseTarget(t) ==
    /\ tgt' = t
    /\ res' = Result("ChooseTarget", OK, "", FALSE)
    /\ UNCHANGED <<index, fs, paths>>

Next ==
    \/ \E loc \in Locators, content \in Contents, e \in InstallEnvs :
            Install(loc, content, e)
    \/ \E p \in Paths, id \in IDs, e \in LinkEnvs : Link(p, id, e)
    \/ \E id \in IDs, e \in RemoveEnvs : Uninstall(id, e)
    \/ \E id \in IDs, e \in RemoveEnvs : Unlink(id, e)
    \/ \E id \in IDs, content \in Contents, fault \in BOOLEAN :
            Update(id, content, fault)
    \/ \E id \in IDs, gid \in GenIDs \cup {"x"}, force \in BOOLEAN,
          e \in GenerateEnvs : Generate(id, gid, force, e)
    \/ \E p \in Paths, content \in Contents : WritePath(p, content)
    \/ \E p \in Paths : RemovePath(p)

Spec == Init /\ [][Next]_vars

\* Installation on its own: templates are fetched and removed, nothing is linked
NextInstall ==
    \/ \E loc \in Locators, content \in Contents, e \in InstallEnvs :
            Install(loc, content, e)
    \/ \E id \in IDs, e \in RemoveEnvs : Uninstall(id, e)

SpecInstall == Init /\ [][NextInstall]_vars

\* Installation and linking with every locator, those included whose
\* directory name is the templates directory itself
NextRoot ==
    \/ \E loc \in Locators \cup RootLocators, content \in Contents, e \in InstallEnvs :
            Install(loc, content, e)
    \/ \E p \in Paths, id \in IDs, e \in LinkEnvs : Link(p, id, e)
    \/ \E id \in IDs, e \in RemoveEnvs : Uninstall(id, e)
    \/ \E p \in Paths, content \in Contents : WritePath(p, content)

SpecRoot == Init /\ [][NextRoot]_vars

\* The Source Manager on its own, called with any template ID: the empty
\* one, the one that names the templates directory, and ordinary ones
ManagerIDs == {EmptyID, RootName} \cup IDs

ManagerOps == {"mgr.Install", "mgr.Uninstall", "mgr.Link", "mgr.Unlink", "mgr.IsInstalled"}

ManagerInstall(loc, fault) ==
    LET o == MgrInstall(fs, loc, fault)
    IN  /\ fs' = o.fs
        /\ res' = Result("mgr.Install", o.err, o.dir, FALSE)
        /\ UNCHANGED <<index, paths, tgt>>

ManagerUninstall(n, fault) ==
    LET o == MgrUninstall(fs, paths, n, fault)
    IN  /\ fs' = o.fs
        /\ paths' = o.paths
        /\ res' = Result("mgr.Uninstall", o.err, n, FALSE)
        /\ UNCHANGED <<index, tgt>>

ManagerLink(p, n, fault) ==
    LET o == MgrLink(fs, paths, p, n, fault)
    IN  /\ fs' = o.fs
        /\ res' = Result("mgr.Link", o.err, n, FALSE)
        /\ UNCHANGED <<index, paths, tgt>>

ManagerUnlink(n, fault) ==
    LET o == MgrUnlink(fs, paths, n, fault)
    IN  /\ fs' = o.fs
        /\ paths' = o.paths
        /\ res' = Result("mgr.Unlink", o.err, n, FALSE)
        /\ UNCHANGED <<index, tgt>>

ManagerIsInstalled(n) ==
    LET o == MgrIsInstalled(fs, paths, n)
    IN  /\ res' = Result("mgr.IsInstalled", o.err, n, o.installed)
        /\ UNCHANGED <<index, fs, paths, tgt>>

NextManager ==
    \/ \E loc \in Locators, fault \in BOOLEAN : ManagerInstall(loc, fault)
    \/ \E n \in ManagerIDs, fault \in BOOLEAN : ManagerUninstall(n, fault)
    \/ \E p \in Paths, n \in ManagerIDs, fault \in BOOLEAN : ManagerLink(p, n, fault)
    \/ \E n \in ManagerIDs, fault \in BOOLEAN : ManagerUnlink(n, fault)
    \/ \E n \in ManagerIDs : ManagerIsInstalled(n)
    \/ \E p \in Paths, content \in Contents : WritePath(p, content)

SpecManager == Init /\ [][NextManager]_vars

\* Generation on its own: "a" installed from a locator, "b" linked to the
\* local path, and a generation path in any state
GenInit ==
    /\ index = [id \in IDs |->
                  IF id = "a"
                  THEN [ID |-> "a", DirectoryName |-> "a",
                        SourceType |-> InstallSourceType, gens |-> GensA]
                  ELSE [ID |-> "b", DirectoryName |-> "b",
                        SourceType |-> LinkSourceType, gens |-> GensB]]
    /\ fs = [EmptyHome EXCEPT !["a"] = DirEntry, !["b"] = [kind |-> "link", to |-> "p"]]
    /\ paths = [p \in Paths |-> [exists |-> TRUE, meta |-> MetaB]]
    /\ tgt \in TgtStates
    /\ res = Result("ChooseTarget", OK, "", FALSE)

NextGen ==
    \/ \E id \in IDs, gid \in GenIDs \cup {"x"}, force \in BOOLEAN,
          e \in GenerateEnvs : Generate(id, gid, force, e)
    \/ \E t \in TgtStates : ChooseTarget(t)
    \/ \E p \in Paths, content \in Contents : WritePath(p, content)
    \/ \E p \in Paths : RemovePath(p)

SpecGen == GenInit /\ [][NextGen]_vars

---------------------------------------------------------------------------
(* Properties *)

Called(calls, name) == \E k \in DOMAIN calls : calls[k][1] = name

CalledWith(calls, name, arg) ==
    \E k \in DOMAIN calls : calls[k][1] = name /\ calls[k][2] = arg

\* every indexed template has a directory or a link at its location
IndexedMaterialized ==
    \A id \in IDs : IdxExists(index, id) => fs[index[id].DirectoryName].kind # "none"

\* the errors Install returns once the Source Manager has materialized the
\* directory: every error but the Source Manager's own
AfterMaterialization ==
    {"ReadFailed", "ValidatorError", "ValidationFailed", "Conflict", "IndexFailure"}

\* C1: when Install fails after the Source Manager materialized the
\* directory, the directory is gone when Install returns and no template ID
\* that was absent before the call is in the Index.
C1_FailedInstallLeavesNothing ==
    [][(res'.op = "Install" /\ res'.err \in AfterMaterialization)
        => /\ \A n \in Names : fs[n].kind = "none" => fs'[n].kind = "none"
           /\ \A t \in IDs : ~IdxExists(index, t) => ~IdxExists(index', t)]_vars

\* C2 as stated: after every completed operation, successful or failed,
\* every template in the Index has a directory or link at its location.
C2_IndexedAlwaysMaterialized == IndexedMaterialized

\* C3: Uninstall of an ID that is not in the Index returns NotFound,
\* changes neither the filesystem nor the Index, and calls neither the
\* Source Manager's Uninstall nor the Index's Delete.
C3_UninstallAbsentIsNotFound ==
    [][res'.op = "Uninstall" => \A id \in IDs, e \in RemoveEnvs :
        (Uninstall(id, e) /\ ~IdxExists(index, id))
        => LET o == IronmanUninstall(index, fs, paths, id, e.removeFails, e.deleteFails)
           IN  /\ res'.err = "NotFound"
               /\ fs' = fs /\ index' = index /\ paths' = paths
               /\ ~Called(o.calls, "mgr.Uninstall")
               /\ ~Called(o.calls, "idx.Delete")]_vars

C3_Witness ==
    /\ res.op = "Uninstall"
    /\ res.err = "NotFound"
    /\ \E n \in Names : fs[n].kind # "none"

\* C4 as stated: after Uninstall(t), Exists(t) is false, whatever
\* Uninstall returned.
C4_UninstallThenAbsent ==
    [][res'.op = "Uninstall" => \A id \in IDs, e \in RemoveEnvs :
        Uninstall(id, e) => ~IdxExists(index', id)]_vars

\* C4 amended: after an Uninstall(t) that returns no error or NotFound,
\* Exists(t) is false.
C4_CompletedUninstallThenAbsent ==
    [][res'.op = "Uninstall" => \A id \in IDs, e \in RemoveEnvs :
        (Uninstall(id, e) /\ res'.err \in {OK, "NotFound"})
        => ~IdxExists(index', id)]_vars

C4_Witness ==
    /\ res.op = "Uninstall"
    /\ res.err = OK
    /\ \E id \in IDs : ~IdxExists(index, id)

\* C5 as stated: Unlink(id) right after a successful Link(p, id) leaves
\* every local path untouched, removes the link, and leaves Exists(id) false.
C5_LinkThenUnlink ==
    [][res'.op = "Unlink" => \A id \in IDs, e \in RemoveEnvs :
        (Unlink(id, e) /\ JustLinked(id))
        => /\ paths' = paths
           /\ fs'[id].kind = "none"
           /\ ~IdxExists(index', id)]_vars

\* C5 amended: Unlink(id) right after a successful Link(p, id) leaves every
\* local path untouched; when it returns no error, the link is removed,
\* nothing else under templates/ changes, and Exists(id) is false.
C5_LinkThenCompletedUnlink ==
    [][res'.op = "Unlink" => \A id \in IDs, e \in RemoveEnvs :
        (Unlink(id, e) /\ JustLinked(id))
        => /\ paths' = paths
           /\ res'.err = OK =>
                /\ fs' = [fs EXCEPT ![id] = NoEntry]
                /\ ~IdxExists(index', id)]_vars

C5_Witness ==
    /\ res.op = "Unlink"
    /\ res.err = OK
    /\ res.afterLink
    /\ \E p \in Paths : paths[p].exists

\* C6: a successful Install adds one entry to the Index, under the ID t
\* that the fetched template declares; Exists(t) is true, the entry has
\* SourceType URL, and its DirectoryName names the directory just created.
C6_InstalledIsIndexedAsURL ==
    [][(res'.op = "Install" /\ res'.err = OK)
        => \E t \in IDs :
            /\ ~IdxExists(index, t)
            /\ IdxExists(index', t)
            /\ index'[t].SourceType = "URL"
            /\ \E loc \in Locators : index'[t].DirectoryName = templatePathFromLocation(loc)
            /\ fs[index'[t].DirectoryName].kind = "none"
            /\ fs'[index'[t].DirectoryName].kind = "dir"
            /\ res'.id = t
            /\ \A u \in IDs \ {t} : index'[u] = index[u]]_vars

C6_Witness ==
    /\ res.op = "Install"
    /\ res.err = OK
    /\ \E t \in IDs : IdxExists(index, t) /\ index[t].DirectoryName # t

\* C10: Update never changes the Index; for an ID that is not in the Index
\* it fails without calling the Source Manager; otherwise it calls the
\* Source Manager's Update with the stored DirectoryName.
C10_UpdateKeepsIndex ==
    [][res'.op = "Update" =>
       \A id \in IDs, content \in Contents, fault \in BOOLEAN :
        Update(id, content, fault)
        => LET o == IronmanUpdate(index, fs, paths, id, content, fault)
           IN  /\ index' = index
               /\ ~IdxExists(index, id)
                    => /\ res'.err # OK
                       /\ ~Called(o.calls, "mgr.Update")
                       /\ fs' = fs /\ paths' = paths
               /\ IdxExists(index, id)
                    => /\ CalledWith(o.calls, "mgr.Update", index[id].DirectoryName)
                       /\ ~Called(o.calls, "idx.Index")
                       /\ ~Called(o.calls, "idx.Update")]_vars

\* a successful Update of a linked template after which the linked path
\* declares other generators than the Index holds
C10_Witness ==
    /\ res.op = "Update"
    /\ res.err = OK
    /\ \E id \in IDs :
        /\ IdxExists(index, id)
        /\ index[id].SourceType = "Link"
        /\ fs[id].kind = "link"
        /\ paths[fs[id].to].exists
        /\ paths[fs[id].to].meta.gens # index[id].gens

\* C7: Generate of a Directory generator into a target directory that
\* exists and is not empty: without force it fails with Conflict (the
\* "not empty" error) and leaves the target as it was, the engine is not
\* called; with force it calls the engine.
C7_NonEmptyDirectoryNeedsForce ==
    [][res'.op = "Generate" =>
       \A id \in IDs, gid \in GenIDs, force \in BOOLEAN, e \in GenerateEnvs :
        LET o == IronmanGenerate(index, fs, paths, tgt, id, gid, force,
                                 e.dirSays, e.updateFails, e.engine)
        IN  (Generate(id, gid, force, e) /\ o.gtype = "Directory" /\ tgt.kind = "full")
            => IF force THEN o.rendered
               ELSE /\ res'.err = "NotEmpty"
                    /\ ~o.rendered
                    /\ tgt' = tgt]_vars

C7_Witness ==
    /\ res.op = "Generate"
    /\ res.err = "NotEmpty"
    /\ tgt.kind = "full"

\* C8: Generate of a File generator into a target whose parent directory
\* does not exist fails with InvalidTarget, with or without force; the
\* engine is not called and nothing is written.
C8_FileNeedsParent ==
    [][res'.op = "Generate" =>
       \A id \in IDs, gid \in GenIDs, force \in BOOLEAN, e \in GenerateEnvs :
        LET o == IronmanGenerate(index, fs, paths, tgt, id, gid, force,
                                 e.dirSays, e.updateFails, e.engine)
        IN  (Generate(id, gid, force, e) /\ o.gtype = "File" /\ tgt.parent = "missing")
            => /\ res'.err = "InvalidTarget"
               /\ ~o.rendered
               /\ tgt' = tgt]_vars

C8_Witness ==
    /\ res.op = "Generate"
    /\ res.err = "InvalidTarget"
    /\ tgt.parent = "missing"

\* C9: Generate of a File generator whose effective output file exists:
\* without force it fails with Conflict (the "file already exists" error)
\* and writes nothing; with force it calls the engine.
C9_ExistingFileNeedsForce ==
    [][res'.op = "Generate" =>
       \A id \in IDs, gid \in GenIDs, force \in BOOLEAN, e \in GenerateEnvs :
        LET o == IronmanGenerate(index, fs, paths, tgt, id, gid, force,
                                 e.dirSays, e.updateFails, e.engine)
        IN  (Generate(id, gid, force, e) /\ o.gtype = "File" /\ OutputExists(tgt))
            => IF force THEN o.rendered
               ELSE /\ res'.err = "FileExists"
                    /\ ~o.rendered
                    /\ tgt' = tgt]_vars

C9_Witness ==
    /\ res.op = "Generate"
    /\ res.err = "FileExists"
    /\ tgt.out

\* C11: a successful Link(path, id) adds exactly one Index entry, under the
\* id the caller passed, with SourceType Link and the link as its location,
\* whatever ID and source type the metadata at path declares; every other
\* entry, the one under the declared ID included, is as before.
C11_LinkedUnderCallerID ==
    [][res'.op = "Link" => \A p \in Paths, id \in IDs, e \in LinkEnvs :
        (Link(p, id, e) /\ res'.err = OK)
        => /\ ~IdxExists(index, id)
           /\ IdxExists(index', id)
           /\ index'[id].ID = id
           /\ index'[id].SourceType = "Link"
           /\ index'[id].DirectoryName = id
           /\ \A u \in IDs \ {id} : index'[u] = index[u]]_vars

\* a successful Link of a path whose metadata declares another ID and
\* another source type, the declared ID not being indexed
C11_Witness ==
    /\ res.op = "Link"
    /\ res.err = OK
    /\ \E id \in IDs :
        /\ res.id = id
        /\ fs[id].kind = "link"
        /\ paths[fs[id].to].meta.mid # id
        /\ paths[fs[id].to].meta.st # "Link"
        /\ ~IdxExists(index, paths[fs[id].to].meta.mid)

\* every call named b in calls comes after a call named a
CalledAfter(calls, a, b) ==
    \A k \in DOMAIN calls :
        calls[k][1] = b => \E j \in 1..(k - 1) : calls[j][1] = a

\* C12: in Uninstall and in Unlink the Index deletion is called only after
\* the Source Manager's removal was called and returned no error, the
\* artifact being gone by then; an Index entry that the operation deletes
\* was deleted by that call.
C12_RemovalBeforeDelete ==
    [][res'.op \in {"Uninstall", "Unlink"} => \A id \in IDs, e \in RemoveEnvs :
        /\ Uninstall(id, e)
            => LET o   == IronmanUninstall(index, fs, paths, id, e.removeFails, e.deleteFails)
                   dir == index[id].DirectoryName
               IN  /\ CalledAfter(o.calls, "mgr.Uninstall", "idx.Delete")
                   /\ Called(o.calls, "idx.Delete")
                        => /\ MgrUninstall(fs, paths, dir, e.removeFails).err = OK
                           /\ fs'[dir].kind = "none"
                   /\ (IdxExists(index, id) /\ ~IdxExists(index', id))
                        => Called(o.calls, "idx.Delete")
        /\ Unlink(id, e)
            => LET o == IronmanUnlink(index, fs, paths, id, e.removeFails, e.deleteFails)
               IN  /\ CalledAfter(o.calls, "mgr.Unlink", "idx.Delete")
                   /\ Called(o.calls, "idx.Delete")
                        => /\ MgrUnlink(fs, paths, id, e.removeFails).err = OK
                           /\ fs'[id].kind = "none"
                   /\ (IdxExists(index, id) /\ ~IdxExists(index', id))
                        => Called(o.calls, "idx.Delete")]_vars

\* an Uninstall whose removal failed: the template is still indexed and its
\* directory is still there
C12_Witness ==
    /\ res.op = "Uninstall"
    /\ res.err = "IOFailure"
    /\ \E id \in IDs : IdxExists(index, id) /\ fs[index[id].DirectoryName].kind = "dir"

\* the validators an operation called, in the order it called them
ValidatorsRun(calls) == SelectSeq(calls, LAMBDA c : c[1] = "validate")

\* C13: Install calls the validators in registration order, after reading
\* the model and before the Index insert; at the first validator that errs
\* or rejects it returns that failure, having called no later validator and
\* not the Index insert, and the Index is as before.
C13_ValidatorsInOrderFirstFailureAborts ==
    [][res'.op = "Install" =>
       \A loc \in Locators, content \in Contents, e \in InstallEnvs :
        Install(loc, content, e)
        => LET o    == IronmanInstall(index, fs, paths, loc, content,
                                      e.fetchFails, e.vout, e.undoFails, e.indexFails)
               m    == MgrInstall(fs, loc, e.fetchFails)
               rd   == Read(m.fs, paths, m.dir, content)
               vals == ValidatorsRun(o.calls)
           IN  /\ CalledAfter(o.calls, "reader.Read", "validate")
               /\ \A k \in DOMAIN vals : vals[k][2] = k
               /\ \A k \in DOMAIN o.calls :
                    o.calls[k][1] = "idx.Index"
                    => /\ Len(vals) = NumValidators
                       /\ \A j \in DOMAIN o.calls : o.calls[j][1] = "validate" => j < k
               /\ (m.err = OK /\ rd.err = OK)
                    => \A k \in DOMAIN e.vout :
                        (e.vout[k] # "valid" /\ \A j \in 1..(k - 1) : e.vout[j] = "valid")
                        => /\ Len(vals) = k
                           /\ ~Called(o.calls, "idx.Index")
                           /\ index' = index
                           /\ res'.err = ValidationError(e.vout[k])]_vars

\* an Install that a validator rejected: the directory is there and no ID
\* is indexed
C13_Witness ==
    /\ res.op = "Install"
    /\ res.err = "ValidationFailed"
    /\ NumValidators > 1
    /\ \E n \in Names : fs[n].kind = "dir"
    /\ \A id \in IDs : ~IdxExists(index, id)

\* C14: when Install or Link fails after materialization and the
\* compensating Uninstall or Unlink fails too, the returned error is the
\* primary one (the read or Index error) and the compensation's error is
\* reported with it as a secondary error.
C14_CompensationErrorAppended ==
    [][res'.op \in {"Install", "Link"} =>
       /\ \A loc \in Locators, content \in Contents, e \in InstallEnvs :
            LET o    == IronmanInstall(index, fs, paths, loc, content,
                                       e.fetchFails, e.vout, e.undoFails, e.indexFails)
                m    == MgrInstall(fs, loc, e.fetchFails)
                undo == MgrUninstall(m.fs, paths, m.dir, e.undoFails)
            IN  (Install(loc, content, e) /\ Called(o.calls, "mgr.Uninstall") /\ undo.err # OK)
                => /\ res'.err \in {"ReadFailed", "Conflict", "IndexFailure"}
                   /\ o.secondary = undo.err
       /\ \A p \in Paths, id \in IDs, e \in LinkEnvs :
            LET o    == IronmanLink(index, fs, paths, p, id,
                                    e.linkFails, e.undoFails, e.indexFails)
                l    == MgrLink(fs, paths, p, id, e.linkFails)
                undo == MgrUnlink(l.fs, paths, id, e.undoFails)
            IN  (Link(p, id, e) /\ Called(o.calls, "mgr.Unlink") /\ undo.err # OK)
                => /\ res'.err \in {"ReadFailed", "Conflict", "IndexFailure"}
                   /\ o.secondary = undo.err]_vars

\* C15: Generate(id, ...) leaves the set of indexed IDs and every entry
\* but the one of id as they were; an entry whose stored SourceType is not
\* Link is left as it was; the entry of a linked template keeps its ID,
\* its SourceType Link and its location, and changes only by taking what
\* the Model Reader reads at that location.
C15_GenerateRefreshesOnlyLinked ==
    [][res'.op = "Generate" =>
       \A id \in IDs, gid \in GenIDs \cup {"x"}, force \in BOOLEAN, e \in GenerateEnvs :
        Generate(id, gid, force, e)
        => LET o  == IronmanGenerate(index, fs, paths, tgt, id, gid, force,
                                     e.dirSays, e.updateFails, e.engine)
               rd == Read(fs, paths, index[id].DirectoryName, e.dirSays)
           IN  /\ \A u \in IDs : IdxExists(index', u) <=> IdxExists(index, u)
               /\ \A u \in IDs \ {id} : index'[u] = index[u]
               /\ index[id].SourceType # "Link" => index' = index
               /\ index[id].SourceType = "Link"
                    => /\ index'[id].ID = id
                       /\ index'[id].SourceType = "Link"
                       /\ index'[id].DirectoryName = index[id].DirectoryName
                       /\ index'[id] # index[id]
                            => /\ Called(o.calls, "reader.Read")
                               /\ Called(o.calls, "idx.Update")
                               /\ index'[id].gens = rd.t.gens]_vars

\* after a Generate, a linked template holds generators other than those it
\* was linked with, read from a path whose metadata declares the ID and the
\* source type of another template
C15_Witness ==
    /\ res.op = "Generate"
    /\ \E id \in IDs :
        /\ index[id].SourceType = "Link"
        /\ index[id].ID = id
        /\ fs[id].kind = "link"
        /\ paths[fs[id].to].meta = MetaA
        /\ index[id].gens = GensA
        /\ id # MetaA.mid

\* C16: Link runs the same pipeline as Install: when it reaches the Index
\* insert it has called every registered validator before, so that a
\* template a validator rejects is never inserted.
C16_LinkRunsValidators ==
    [][res'.op = "Link" => \A p \in Paths, id \in IDs, e \in LinkEnvs :
        Link(p, id, e)
        => LET o == IronmanLink(index, fs, paths, p, id,
                                e.linkFails, e.undoFails, e.indexFails)
           IN  Called(o.calls, "idx.Index")
               => /\ Len(ValidatorsRun(o.calls)) = NumValidators
                  /\ CalledAfter(o.calls, "validate", "idx.Index")]_vars

\* C17: for a Directory generator, Generate calls the generation engine
\* only when the target exists as a directory after os.Mkdir; when os.Mkdir
\* fails with anything but "already exists", Generate returns an error
\* without calling the engine.
C17_DirectoryRendersOnlyIntoDirectory ==
    [][res'.op = "Generate" =>
       \A id \in IDs, gid \in GenIDs, force \in BOOLEAN, e \in GenerateEnvs :
        LET o == IronmanGenerate(index, fs, paths, tgt, id, gid, force,
                                 e.dirSays, e.updateFails, e.engine)
        IN  (Generate(id, gid, force, e) /\ o.gtype = "Directory")
            => /\ o.rendered => AfterMkdir(tgt).kind \in {"empty", "full"}
               /\ Mkdir(tgt) \notin {OK, "EEXIST"}
                    => (~o.rendered /\ res'.err # OK /\ tgt' = tgt)]_vars

\* C18: an Install or Link that fails leaves every template that was
\* indexed before the call with its Index entry and its artifact on disk as
\* they were, and leaves the local paths as they were.
C18_FailedInstallSparesIndexed ==
    [][(res'.op \in {"Install", "Link"} /\ res'.err # OK)
        => /\ paths' = paths
           /\ \A t \in IDs :
                IdxExists(index, t)
                => /\ index'[t] = index[t]
                   /\ fs[index[t].DirectoryName].kind # "none"
                        => fs'[index[t].DirectoryName] = fs[index[t].DirectoryName]]_vars

\* C19: the Source Manager's Unlink(id) returns NotFound only when there is
\* no symbolic reference at the location of id; a reference that is there
\* is removed, also when the path it points to has been deleted.
C19_UnlinkRemovesAnyReference ==
    [][res'.op = "Unlink" => \A id \in IDs, e \in RemoveEnvs :
        Unlink(id, e)
        => LET un == MgrUnlink(fs, paths, id, e.removeFails)
           IN  /\ un.err = "NotFound" => fs[id].kind # "link"
               /\ (fs[id].kind = "link" /\ ~e.removeFails)
                    => (un.err = OK /\ un.fs[id].kind = "none")]_vars

\* C20: the manager's Uninstall, Link, Unlink and IsInstalled given the
\* empty template ID return an error and change nothing on disk, and no
\* manager operation removes or replaces the templates directory itself.
C20_EmptyIDRejectedRootKept ==
    [][res'.op \in ManagerOps
        => /\ res'.id = EmptyID => (res'.err # OK /\ fs' = fs /\ paths' = paths)
           /\ fs[RootName] = DirEntry => fs'[RootName] = DirEntry]_vars

====
